---- MODULE Spec2Model ----
(***************************************************************************)
(* Model of src/agent.ts: the browser-automation agent.                    *)
(*                                                                         *)
(* main() asks the operator for a task, hands it to runner.run (the        *)
(* @openai/agents Runner, maxTurns 30) with a catalog of eight tools that  *)
(* all act on one shared Playwright page, prints one result box and closes *)
(* the browser.  The Runner, the planner (the language model), the browser *)
(* page and the operator are collaborators: the Runner is modelled by its  *)
(* run loop (turn counter, schema validation in tool(), default tool       *)
(* error function, all tool calls of one response run by Promise.all), the *)
(* others by nondeterministic choice over small sets of inputs.            *)
(***************************************************************************)
EXTENDS Integers, Sequences, FiniteSets, TLC

VARIABLES
    pc,          \* position of the module top level and of main()
    env,         \* which of the three GEMINI_* variables are set
    browser,     \* "none" | "open" | "closing" | "closed"
    closeCalls,  \* number of browser.close() calls made
    query,       \* main's local `query`
    console,     \* what the operator has been shown, in order
    page,        \* the shared page: the one mutable resource of the tools
    turn,        \* the Runner's turn counter
    rstate,      \* the Runner: "idle" | "model" | "tools" | "final" | "threw"
    calls,       \* tool invocations of the current planner response
    tail,        \* transcript entries appended since the last planner response
    outcome,     \* what runner.run resolved with or rejected with
    dispatched   \* history: tool invocations dispatched so far (kept by the
                 \* specifications that count them)

vars == <<pc, env, browser, closeCalls, query, console, page, turn, rstate,
          calls, tail, outcome, dispatched>>

mainVars   == <<pc, env, browser, closeCalls, query, console>>
runnerVars == <<turn, rstate, calls, tail, outcome, dispatched>>

----------------------------------------------------------------------------
(* Bounds of the model and constants of the program *)

MaxTurns == 30            \* runner.run(agent, query, { maxTurns: 30 })
MaxBatch == 2             \* tool invocations in one planner response
SelectorTimeoutMs == 10000
NavTimeoutMs == 30000

----------------------------------------------------------------------------
(* JSON values the planner puts in a tool invocation *)

Str(s) == [k |-> "str", s |-> s, n |-> 0, l |-> <<>>]
Num(n) == [k |-> "num", s |-> "", n |-> n, l |-> <<>>]
Null   == [k |-> "null", s |-> "", n |-> 0, l |-> <<>>]
Undef  == [k |-> "undef", s |-> "", n |-> 0, l |-> <<>>]
(* a line the operator typed, kept as its characters so that trim() acts *)
Line(l) == [k |-> "line", s |-> "", n |-> 0, l |-> l]

Urls      == {"https://example.com/login"}
Selectors == {"#email"}
Texts     == {"test@example.com"}

(* The tool catalog handed to the Agent *)
ToolNames ==
    {"navigate", "extract_page_elements", "clickOnElement", "type", "wait",
     "scroll", "take_screenshot", "ask_user"}

(* parameters: z.object({...}) of each tool: the kind of its (at most two)
   properties, in declaration order *)
Schema(tool) ==
    CASE tool = "take_screenshot"       -> <<"string", "absent">>
      [] tool = "navigate"              -> <<"string", "absent">>
      [] tool = "clickOnElement"        -> <<"string", "absent">>
      [] tool = "type"                  -> <<"string", "string">>
      [] tool = "scroll"                -> <<"number", "number">>
      [] tool = "wait"                  -> <<"number", "absent">>
      [] tool = "extract_page_elements" -> <<"nullableStringDefault", "absent">>
      [] tool = "ask_user"              -> <<"string", "absent">>

(* zod: z.string() takes any string (the empty one too), z.number() any
   number (negative too), .nullable().default(d) a string, null or a missing
   property; z.object strips properties it does not declare *)
Accepts(kind, v) ==
    CASE kind = "string"                -> v.k = "str"
      [] kind = "number"                -> v.k = "num"
      [] kind = "nullableStringDefault" -> v.k \in {"str", "null", "undef"}
      [] kind = "absent"                -> TRUE

ParseArg(kind, v) ==
    CASE kind = "nullableStringDefault" /\ v.k = "undef" -> Str("form")
      [] kind = "absent"                                 -> Undef
      [] OTHER                                           -> v

ValidArgs(c) ==
    /\ Accepts(Schema(c.tool)[1], c.p1)
    /\ Accepts(Schema(c.tool)[2], c.p2)

----------------------------------------------------------------------------
(* The page, and what the browser may do on one awaited operation *)

Prefills     == {"", "old@example.com"}   \* what a loaded page's field holds
AppearDelays == {0, 15000}                \* ms until the selector is visible
LoadTimes    == {800, 45000}              \* ms until domcontentloaded
DocHeight == 1                            \* scroll range of the document

MaxDomLen == 2                            \* elements in a drawn document

(* An element of the document, by the DOM properties the tools read.
   type is the type ATTRIBUTE ("" when the markup has none); className is
   the class string as className.split(" ") cuts it, <<>> for the empty
   string; textContent is a sequence of characters. *)
El(tag, id, name, type, placeholder, className) ==
    [tag |-> tag, id |-> id, name |-> name, type |-> type,
     placeholder |-> placeholder, className |-> className,
     value |-> "", required |-> FALSE, visible |-> TRUE,
     textContent |-> IF tag = "button" THEN <<" ", "O", "K", " ">> ELSE <<>>,
     action |-> IF tag = "form" THEN "/login" ELSE ""]

Ids        == {"", "email"}
ClassNames == {<<>>, <<"", "">>, <<"btn", "", "primary">>}

Elements ==
    {El("form", id, "", "", "", <<>>) : id \in Ids}
      \cup {El("input", id, n, t, IF t = "email" THEN "Email" ELSE "", <<>>) :
               id \in Ids, n \in {"", "email"}, t \in {"", "email", "submit"}}
      \cup {El("input", "", "", "button", "", <<>>),
            El("textarea", "", "", "", "Notes", <<>>),
            El("select", "", "country", "", "", <<>>),
            El("div", "email", "", "", "", <<>>)}
      \cup {El("button", id, "", "", "", cl) : id \in Ids, cl \in ClassNames}

Docs == UNION {[1..n -> Elements] : n \in 0..MaxDomLen}

(* the document the site under automation serves *)
LoginDom ==
    <<El("form", "", "", "", "", <<>>),
      El("input", "email", "email", "email", "Email", <<>>),
      El("button", "", "", "", "", <<"btn", "", "primary">>)>>

BlankPage ==
    [url |-> "about:blank", value |-> "", focus |-> "", scrollY |-> 0,
     dom |-> <<>>]

Pages ==
    [url : Urls \cup {"about:blank"}, value : Prefills \cup Texts,
     focus : Selectors \cup {""}, scrollY : 0..DocHeight,
     dom : {<<>>, LoginDom}]

Clamp(n) == IF n < 0 THEN 0 ELSE IF n > DocHeight THEN DocHeight ELSE n

(* error.message of the exception an operation rejects with *)
ErrWaitTimeout == "page.waitForSelector: Timeout 10000ms exceeded"
ErrGotoTimeout == "page.goto: Timeout 30000ms exceeded"
ErrClick       == "page.click: failed"
ErrFill        == "page.fill: failed"
ErrScreenshot  == "page.screenshot: failed"
ErrEvaluate    == "page.evaluate: failed"
ErrInvalidJson == "Invalid JSON input for tool"

(* What a tool invocation gives back to the Runner.
     "ok"      the string (or object) execute returns on success
     "fail"    the failure string execute's catch block returns
     "threw"   execute rejected; tool()'s default error function turns the
               exception into a string for the planner
     "invalid" the arguments did not parse; execute never ran *)
NoResult == [k |-> "none", fmt |-> "", args |-> <<>>, msg |-> ""]
Res(kind, fmt, args, msg) == [k |-> kind, fmt |-> fmt, args |-> args, msg |-> msg]

(* a tool invocation as the planner emits it *)
Call(tool, p1, p2) ==
    [tool |-> tool, p1 |-> p1, p2 |-> p2, pc |-> "parse", ops |-> <<>>,
     file |-> Undef, before |-> Undef, res |-> NoResult]

(* ops: the operations the invocation has called so far, each with the
   string and the number passed and how it ended ("pending" while awaited,
   "ok" when it resolved, "rejected" when it threw); pc: the operation the
   invocation is suspended in *)
Op(name, str, num) == [op |-> name, s |-> str, n |-> num, st |-> "pending"]
Settle(c, st) ==
    IF c.ops = <<>> THEN c ELSE [c EXCEPT !.ops[Len(c.ops)].st = st]
(* the awaited operation resolved and execute calls the next one *)
Await(c, at, o) == [Settle(c, "ok") EXCEPT !.pc = at, !.ops = Append(@, o)]
(* the awaited operation resolved and execute returns r *)
Return(c, r) == [Settle(c, "ok") EXCEPT !.pc = "done", !.res = r]
(* the awaited operation threw: r is what the catch block returns, or the
   exception that leaves execute *)
Reject(c, r) == [Settle(c, "rejected") EXCEPT !.pc = "done", !.res = r]
(* the invocation ends before execute is entered *)
Done(c, r) == [c EXCEPT !.pc = "done", !.res = r]
Out(c, pg)         == [c |-> c, p |-> pg]
Falsy(v)           == v.k \in {"undef", "null"} \/ (v.k = "str" /\ v.s = "")

----------------------------------------------------------------------------
(* The execute function of each tool, one step per awaited operation.
   XStep(c, pg) is the set of outcomes of the operation invocation c is
   suspended in, on page pg: the invocation after it and the page after it. *)

DefaultShot == Str("screenshot-<Date.now()>.png")
ImagePayload ==
    Res("ok", "image", <<Str("base64"), Str("image/png"),
                         Str("Current page screenshot")>>, "")

(* takeScreenshotTool.execute: no try/catch *)
ScreenshotStart(c) ==
    Await(c, "screenshot",
          Op("screenshot", IF Falsy(c.p1) THEN DefaultShot.s ELSE c.p1.s, 0))
ScreenshotStep(c, pg) ==
    CASE c.pc = "screenshot" ->
           { Out(Await([c EXCEPT !.file = Str(c.ops[1].s)], "waitForTimeout",
                       Op("waitForTimeout", "", 500)), pg),
             Out(Reject(c, Res("threw", "", <<>>, ErrScreenshot)), pg) }
      [] c.pc = "waitForTimeout" -> { Out(Return(c, ImagePayload), pg) }

(* NavigateStep without the try/catch around page.goto *)
NavigateStepNoCatch(c, pg) ==
    CASE c.pc = "goto" ->
           { IF t < NavTimeoutMs
               THEN Out(Await(c, "waitForTimeout", Op("waitForTimeout", "", 2000)),
                        [url |-> c.p1.s, value |-> v, focus |-> "", scrollY |-> 0,
                         dom |-> LoginDom])
               ELSE Out(Reject(c, Res("threw", "", <<>>, ErrGotoTimeout)), pg)
             : t \in LoadTimes, v \in Prefills }
      [] c.pc = "waitForTimeout" ->
           { Out(Return(c, Res("ok", "Successfully navigated to:", <<c.p1>>, "")), pg) }

(* navigateTool.execute *)
NavigateStart(c) == Await(c, "goto", Op("goto", c.p1.s, NavTimeoutMs))
NavigateStep(c, pg) ==
    CASE c.pc = "goto" ->
           { IF t < NavTimeoutMs
               THEN Out(Await(c, "waitForTimeout", Op("waitForTimeout", "", 2000)),
                        [url |-> c.p1.s, value |-> v, focus |-> "", scrollY |-> 0,
                         dom |-> LoginDom])
               ELSE Out(Reject(c, Res("fail", "Failed to navigate to", <<c.p1>>,
                                    ErrGotoTimeout)), pg)
             : t \in LoadTimes, v \in Prefills }
      [] c.pc = "waitForTimeout" ->
           { Out(Return(c, Res("ok", "Successfully navigated to:", <<c.p1>>, "")), pg) }

(* ClickStep that clicks whether or not the wait succeeded *)
ClickStepNoWaitCheck(c, pg) ==
    CASE c.pc = "waitForSelector" ->
           { IF d < SelectorTimeoutMs
               THEN Out(Await(c, "click", Op("click", c.p1.s, 0)), pg)
               ELSE Out([Settle(c, "rejected") EXCEPT
                           !.pc = "click",
                           !.ops = Append(@, Op("click", c.p1.s, 0))], pg)
             : d \in AppearDelays }
      [] c.pc = "click" ->
           { Out(Await(c, "waitForTimeout", Op("waitForTimeout", "", 1000)),
                 [pg EXCEPT !.focus = c.p1.s]),
             Out(Reject(c, Res("fail", "Failed to click element", <<c.p1>>,
                               ErrClick)), pg) }
      [] c.pc = "waitForTimeout" ->
           { Out(Return(c, Res("ok", "Successfully clicked on element:", <<c.p1>>, "")),
                 pg) }

(* clickOnElementTool.execute *)
ClickStart(c) ==
    Await(c, "waitForSelector", Op("waitForSelector", c.p1.s, SelectorTimeoutMs))
ClickStep(c, pg) ==
    CASE c.pc = "waitForSelector" ->
           { IF d < SelectorTimeoutMs
               THEN Out(Await(c, "click", Op("click", c.p1.s, 0)), pg)
               ELSE Out(Reject(c, Res("fail", "Failed to click element", <<c.p1>>,
                                    ErrWaitTimeout)), pg)
             : d \in AppearDelays }
      [] c.pc = "click" ->
           { Out(Await(c, "waitForTimeout", Op("waitForTimeout", "", 1000)),
                 [pg EXCEPT !.focus = c.p1.s]),
             Out(Reject(c, Res("fail", "Failed to click element", <<c.p1>>,
                             ErrClick)), pg) }
      [] c.pc = "waitForTimeout" ->
           { Out(Return(c, Res("ok", "Successfully clicked on element:", <<c.p1>>, "")),
                 pg) }

(* typeTool.execute; before is history: what the field holds when the
   first page.fill is called *)
TypeStart(c) ==
    Await(c, "waitForSelector", Op("waitForSelector", c.p1.s, SelectorTimeoutMs))
TypeStep(c, pg) ==
    CASE c.pc = "waitForSelector" ->
           { IF d < SelectorTimeoutMs
               THEN Out(Await([c EXCEPT !.before = Str(pg.value)], "fillClear",
                              Op("fill", "", 0)), pg)
               ELSE Out(Reject(c, Res("fail", "Failed to type into element", <<c.p1>>,
                                    ErrWaitTimeout)), pg)
             : d \in AppearDelays }
      [] c.pc = "fillClear" ->
           { Out(Await(c, "fillText", Op("fill", c.p2.s, 0)),
                 [pg EXCEPT !.value = ""]),
             Out(Reject(c, Res("fail", "Failed to type into element", <<c.p1>>,
                             ErrFill)), pg) }
      [] c.pc = "fillText" ->
           { Out(Await(c, "waitForTimeout", Op("waitForTimeout", "", 500)),
                 [pg EXCEPT !.value = c.p2.s]),
             Out(Reject(c, Res("fail", "Failed to type into element", <<c.p1>>,
                             ErrFill)), pg) }
      [] c.pc = "waitForTimeout" ->
           { Out(Return(c, Res("ok", "Successfully typed into element:",
                             <<c.p2, c.p1>>, "")), pg) }

(* scrollTool.execute: no try/catch *)
ScrollStart(c) == Await(c, "evaluate", Op("evaluate", "window.scrollBy", c.p2.n))
ScrollStep(c, pg) ==
    CASE c.pc = "evaluate" ->
           { Out(Await(c, "waitForTimeout", Op("waitForTimeout", "", 1000)),
                 [pg EXCEPT !.scrollY = Clamp(@ + c.p2.n)]),
             Out(Reject(c, Res("threw", "", <<>>, ErrEvaluate)), pg) }
      [] c.pc = "waitForTimeout" ->
           { Out(Return(c, Res("ok", "Scrolled by", <<c.p1, c.p2>>, "")), pg) }

(* waitTool.execute *)
WaitStart(c) == Await(c, "waitForTimeout", Op("waitForTimeout", "", c.p1.n))
WaitStep(c, pg) ==
    { Out(Return(c, Res("ok", "Waited for milliseconds.", <<c.p1>>, "")), pg) }

(* String.prototype.trim, on a sequence of characters *)
RECURSIVE TrimStart(_)
TrimStart(l) ==
    IF l # <<>> /\ Head(l) = " " THEN TrimStart(Tail(l)) ELSE l

RECURSIVE TrimEnd(_)
TrimEnd(l) ==
    IF l # <<>> /\ l[Len(l)] = " " THEN TrimEnd(SubSeq(l, 1, Len(l) - 1)) ELSE l

Trim(l) == TrimEnd(TrimStart(l))

(* The callback extractPageElements hands to page.evaluate. *)

(* the DOM properties the callback reads, as the browser computes them from
   the markup: input.type is "text" without a type attribute, button.type
   "submit", textarea.type and select.type are fixed; the live value of the
   field the Selectors address is the page's *)
TypeOf(el) ==
    CASE el.tag = "input"    -> IF el.type = "" THEN "text" ELSE el.type
      [] el.tag = "button"   -> IF el.type = "" THEN "submit" ELSE el.type
      [] el.tag = "textarea" -> "textarea"
      [] el.tag = "select"   -> "select-one"
      [] OTHER               -> ""
ValueOf(el, pg) ==
    IF el.tag \in {"input", "textarea", "select"} /\ "#" \o el.id \in Selectors
      THEN pg.value ELSE el.value

(* document.querySelectorAll(...): the matching elements in document order *)
formElements(dom)   == SelectSeq(dom, LAMBDA el : el.tag = "form")
inputElements(dom)  ==
    SelectSeq(dom, LAMBDA el : el.tag \in {"input", "textarea", "select"})
buttonElements(dom) ==
    SelectSeq(dom, LAMBDA el : \/ el.tag = "button"
                               \/ el.tag = "input" /\ el.type \in {"submit", "button"})

(* className.split(" ").filter(Boolean) and classes.join(".") *)
Classes(className) == SelectSeq(className, LAMBDA cl : cl # "")
RECURSIVE Join(_, _)
Join(classes, sep) ==
    IF Len(classes) = 1 THEN classes[1]
    ELSE classes[1] \o sep \o Join(Tail(classes), sep)

Hint(cond, text) == IF cond THEN <<text>> ELSE <<>>

InputSelectorHints(input) ==
    Hint(input.id # "", "#" \o input.id)
      \o Hint(input.name # "", "[name=\"" \o input.name \o "\"]")
      \o Hint(TypeOf(input) # "", "input[type=\"" \o TypeOf(input) \o "\"]")
      \o Hint(input.placeholder # "",
              "[placeholder=\"" \o input.placeholder \o "\"]")

ButtonSelectorHints(button) ==
    Hint(button.id # "", "#" \o button.id)
      \o Hint(button.className # <<>> /\ Len(Classes(button.className)) > 0,
              "." \o Join(Classes(button.className), "."))
      \o Hint(TypeOf(button) # "", "[type=\"" \o TypeOf(button) \o "\"]")

FormDescriptors(dom) ==
    [index \in DOMAIN formElements(dom) |->
        [tag |-> "form",
         selector |-> "form:nth-child(" \o ToString(index) \o ")",
         id |-> formElements(dom)[index].id,
         className |-> formElements(dom)[index].className,
         action |-> formElements(dom)[index].action]]

InputDescriptor(input, pg) ==
    [tag |-> input.tag, type |-> TypeOf(input), id |-> input.id,
     name |-> input.name, className |-> input.className,
     placeholder |-> input.placeholder,
     selectors |-> InputSelectorHints(input), value |-> ValueOf(input, pg),
     required |-> input.required, visible |-> input.visible]

ButtonDescriptor(button, pg) ==
    [tag |-> button.tag, type |-> TypeOf(button), id |-> button.id,
     className |-> button.className, textContent |-> Trim(button.textContent),
     value |-> ValueOf(button, pg), selectors |-> ButtonSelectorHints(button),
     visible |-> button.visible]

(* inputElements.forEach, buttonElements.forEach *)
InputDescriptors(els, pg)  == [i \in DOMAIN els |-> InputDescriptor(els[i], pg)]
ButtonDescriptors(els, pg) == [i \in DOMAIN els |-> ButtonDescriptor(els[i], pg)]

(* the callback with the clickable enumeration skipping what the input
   enumeration already reported *)
collectedElementsDeduplicated(pg, focus) ==
    FormDescriptors(pg.dom)
      \o InputDescriptors(inputElements(pg.dom), pg)
      \o ButtonDescriptors(SelectSeq(buttonElements(pg.dom),
                                     LAMBDA el : el.tag = "button"), pg)

(* the callback reporting only the category its focus names *)
collectedElementsFocused(pg, focus) ==
    (IF focus \in {"inputs", "buttons"} THEN <<>> ELSE FormDescriptors(pg.dom))
      \o (IF focus = "buttons" THEN <<>>
          ELSE InputDescriptors(inputElements(pg.dom), pg))
      \o (IF focus = "inputs" THEN <<>>
          ELSE ButtonDescriptors(buttonElements(pg.dom), pg))

(* the callback: focus is its parameter, which its body never reads *)
collectedElements(pg, focus) ==
    FormDescriptors(pg.dom)
      \o InputDescriptors(inputElements(pg.dom), pg)
      \o ButtonDescriptors(buttonElements(pg.dom), pg)

(* extractPageElements.execute: no try/catch *)
ExtractStart(c) ==
    Await(c, "evaluate",
          Op("evaluate", IF Falsy(c.p1) THEN "form" ELSE c.p1.s, 0))
ExtractStep(c, pg) ==
    { Out(Return(c, Res("ok", "elements", collectedElements(pg, c.ops[1].s), "")),
          pg),
      Out(Reject(c, Res("threw", "", <<>>, ErrEvaluate)), pg) }

----------------------------------------------------------------------------
(* askUser: prints the question, blocks until the operator enters a line,
   resolves with the line trimmed *)

OperatorLines == {<<>>, <<" ">>, <<"y">>, <<" ", "y", " ">>}

askUser(line) == Line(Trim(line))

(* askUserTool.execute *)
AskStart(c) == Await(c, "question", Op("askUser", c.p1.s, 0))
AskStep(c, pg) ==
    { Out(Return(c, Res("ok", "answer", <<askUser(a)>>, "")), pg)
      : a \in OperatorLines }

----------------------------------------------------------------------------
(* tool(): invoke parses the arguments with the schema and only then calls
   execute; execute runs up to its first awaited page operation *)

Execute(c) ==
    CASE c.tool = "take_screenshot"       -> ScreenshotStart(c)
      [] c.tool = "navigate"              -> NavigateStart(c)
      [] c.tool = "clickOnElement"        -> ClickStart(c)
      [] c.tool = "type"                  -> TypeStart(c)
      [] c.tool = "scroll"                -> ScrollStart(c)
      [] c.tool = "wait"                  -> WaitStart(c)
      [] c.tool = "extract_page_elements" -> ExtractStart(c)
      [] c.tool = "ask_user"              -> AskStart(c)

(* Invoke calling execute with whatever arguments the planner sent *)
InvokeUnchecked(c) == Execute(c)

Invoke(c) ==
    IF ValidArgs(c)
      THEN Execute([c EXCEPT !.p1 = ParseArg(Schema(c.tool)[1], c.p1),
                             !.p2 = ParseArg(Schema(c.tool)[2], c.p2)])
      ELSE Done(c, Res("invalid", "", <<>>, ErrInvalidJson))

Resume(c, pg) ==
    CASE c.tool = "take_screenshot"       -> ScreenshotStep(c, pg)
      [] c.tool = "navigate"              -> NavigateStep(c, pg)
      [] c.tool = "clickOnElement"        -> ClickStep(c, pg)
      [] c.tool = "type"                  -> TypeStep(c, pg)
      [] c.tool = "scroll"                -> ScrollStep(c, pg)
      [] c.tool = "wait"                  -> WaitStep(c, pg)
      [] c.tool = "extract_page_elements" -> ExtractStep(c, pg)
      [] c.tool = "ask_user"              -> AskStep(c, pg)

----------------------------------------------------------------------------
(* The planner: what one response of the model may carry *)

ToolCalls ==
    {Call("navigate", Str(u), Undef) : u \in Urls}
    \cup {Call("navigate", Undef, Undef)}
    \cup {Call("clickOnElement", Str(sel), Undef) : sel \in Selectors}
    \cup {Call("clickOnElement", Num(1), Undef)}
    \cup {Call("type", Str(sel), Str(t)) : sel \in Selectors, t \in Texts}
    \cup {Call("type", Str(sel), Undef) : sel \in Selectors}
    \cup {Call("scroll", Num(0), Num(dy)) : dy \in {1, -1}}
    \cup {Call("scroll", Num(0), Str("down"))}
    \cup {Call("wait", Num(ms), Undef) : ms \in {500, -1}}
    \cup {Call("wait", Str("500"), Undef)}
    \cup {Call("take_screenshot", v, Undef) : v \in {Str("shot.png"), Str(""), Undef}}
    \cup {Call("extract_page_elements", v, Undef) : v \in {Undef, Null, Str("buttons")}}
    \cup {Call("extract_page_elements", Num(1), Undef)}
    \cup {Call("ask_user", Str("Which account?"), Undef)}
    \cup {Call("ask_user", Null, Undef)}

(* the invocations the planner chooses among in the planning loop *)
LoopCalls ==
    {Call("navigate", Str(u), Undef) : u \in Urls}
    \cup {Call("navigate", Undef, Undef)}
    \cup {Call("clickOnElement", Str(sel), Undef) : sel \in Selectors}
    \cup {Call("type", Str(sel), Str(t)) : sel \in Selectors, t \in Texts}
    \cup {Call("take_screenshot", Str("shot.png"), Undef)}
    \cup {Call("ask_user", Str("Which account?"), Undef)}

(* the one invocation the planner repeats in the specification that counts
   turns and dispatches *)
TurnCalls == {Call("wait", Num(500), Undef)}

(* the invocations of the specification of the run's end: one whose execute
   may throw, one that always returns *)
TeardownCalls ==
    {Call("take_screenshot", Str("shot.png"), Undef), Call("wait", Num(500), Undef)}

Batches(menu) == UNION {[1..n -> menu] : n \in 1..MaxBatch}

FinalOutputs == {"", "Logged in."}

(* exceptions runner.run rejects with other than the turn limit *)
PlannerErrors == {"Tool not found in agent", "Connection error."}
ErrMaxTurns   == "Max turns (30) exceeded"

NoOutcome == [k |-> "none", text |-> ""]

(* BeginTurn ending the run without an error once the limit is passed *)
BeginTurnSilent(t) ==
    IF t + 1 > MaxTurns
      THEN [turn |-> t + 1, rstate |-> "final",
            outcome |-> [k |-> "final", text |-> ""]]
      ELSE [turn |-> t + 1, rstate |-> "model", outcome |-> NoOutcome]

(* the top of the Runner's loop: count the turn, reject past maxTurns *)
BeginTurn(t) ==
    IF t + 1 > MaxTurns
      THEN [turn |-> t + 1, rstate |-> "threw",
            outcome |-> [k |-> "error", text |-> ErrMaxTurns]]
      ELSE [turn |-> t + 1, rstate |-> "model", outcome |-> NoOutcome]

----------------------------------------------------------------------------
(* Module top level *)

EnvNames == {"GEMINI_BASE_URL", "GEMINI_API_KEY", "GEMINI_MODEL_NAME"}

DefaultQuery == Str("Automate the login process on the website.")

Init ==
    /\ pc = "launch"
    /\ env \in [EnvNames -> BOOLEAN]
    /\ browser = "none"
    /\ closeCalls = 0
    /\ query = Undef
    /\ console = <<>>
    /\ page = BlankPage
    /\ turn = 0
    /\ rstate = "idle"
    /\ calls = <<>>
    /\ tail = <<>>
    /\ outcome = NoOutcome
    /\ dispatched = 0

(* pw.chromium.launch, browser.newPage *)
Launch ==
    /\ pc = "launch"
    /\ browser' = "open"
    /\ page' = BlankPage
    /\ pc' = "envcheck"
    /\ UNCHANGED <<env, closeCalls, query, console>>
    /\ UNCHANGED runnerVars

(* the environment check; then main() is called and asks for the task *)
EnvCheck ==
    /\ pc = "envcheck"
    /\ IF \E n \in EnvNames : ~env[n]
         THEN /\ console' = Append(console, [kind |-> "missing-env", text |-> Undef])
              /\ pc' = "exited"
         ELSE /\ console' = console
              /\ pc' = "intake"
    /\ UNCHANGED <<env, browser, closeCalls, query, page>>
    /\ UNCHANGED runnerVars

----------------------------------------------------------------------------
(* main() *)

(* the operator enters a line at the intake prompt: readline calls
   askUser's callback with it (query holds the line as entered until askUser
   resolves) *)
IntakeAnswer ==
    /\ pc = "intake"
    /\ \E a \in OperatorLines : query' = Line(a)
    /\ pc' = "answered"
    /\ UNCHANGED <<env, browser, closeCalls, console, page>>
    /\ UNCHANGED runnerVars

(* Intake taking the line as entered for the task *)
IntakeRawAnswer ==
    /\ pc = "answered"
    /\ LET q    == query
           used == IF q.l = <<>> THEN DefaultQuery ELSE q
           warn == IF q.l = <<>>
                     THEN <<[kind |-> "default-task", text |-> used]>>
                     ELSE <<>>
           b    == BeginTurn(0)
       IN /\ query' = used
          /\ console' = console \o warn \o <<[kind |-> "task", text |-> used]>>
          /\ turn' = b.turn
          /\ rstate' = b.rstate
          /\ outcome' = b.outcome
          /\ tail' = <<Res("task", "", <<used>>, "")>>
    /\ pc' = "run"
    /\ UNCHANGED <<env, browser, closeCalls, page, calls, dispatched>>

(* askUser resolves with the line trimmed: default substitution, the task
   line, and runner.run starts its first turn *)
Intake ==
    /\ pc = "answered"
    /\ LET q    == askUser(query.l)
           used == IF q.l = <<>> THEN DefaultQuery ELSE q
           warn == IF q.l = <<>>
                     THEN <<[kind |-> "default-task", text |-> used]>>
                     ELSE <<>>
           b    == BeginTurn(0)
       IN /\ query' = used
          /\ console' = console \o warn \o <<[kind |-> "task", text |-> used]>>
          /\ turn' = b.turn
          /\ rstate' = b.rstate
          /\ outcome' = b.outcome
          /\ tail' = <<Res("task", "", <<used>>, "")>>
    /\ pc' = "run"
    /\ UNCHANGED <<env, browser, closeCalls, page, calls, dispatched>>

----------------------------------------------------------------------------
(* runner.run(agent, query, { maxTurns: 30 }) *)

(* the planner answers with a final text: run resolves *)
PlannerFinal ==
    /\ pc = "run" /\ rstate = "model"
    /\ \E f \in FinalOutputs :
         outcome' = [k |-> "final", text |-> f]
    /\ rstate' = "final"
    /\ tail' = <<>>
    /\ UNCHANGED <<turn, calls, page, dispatched>>
    /\ UNCHANGED mainVars

(* the planner answers with tool invocations: every one is invoked at once
   (Promise.all over the function calls of the response); each parses its
   arguments and, if they are valid, runs execute up to its first awaited
   page operation, before any page operation completes *)
PlannerCalls(batches, counted) ==
    /\ pc = "run" /\ rstate = "model"
    /\ \E b \in batches :
         /\ calls' = [i \in 1..Len(b) |-> Invoke(b[i])]
         /\ dispatched' = IF counted THEN dispatched + Len(b) ELSE dispatched
    /\ rstate' = "tools"
    /\ tail' = <<>>
    /\ UNCHANGED <<turn, outcome, page>>
    /\ UNCHANGED mainVars

(* the model call fails, or the response names no tool of the catalog *)
PlannerFails ==
    /\ pc = "run" /\ rstate = "model"
    /\ \E m \in PlannerErrors :
         outcome' = [k |-> "error", text |-> m]
    /\ rstate' = "threw"
    /\ tail' = <<>>
    /\ UNCHANGED <<turn, calls, page, dispatched>>
    /\ UNCHANGED mainVars

(* the operation invocation i awaits completes *)
ResumeTool(i) ==
    /\ pc = "run" /\ rstate = "tools"
    /\ calls[i].pc # "done"
    /\ \E o \in Resume(calls[i], page) :
         /\ calls' = [calls EXCEPT ![i] = o.c]
         /\ page' = o.p
    /\ UNCHANGED <<turn, rstate, tail, outcome, dispatched>>
    /\ UNCHANGED mainVars

(* Collect with the run rejecting as soon as one invocation has thrown,
   whatever the others are doing *)
CollectRejectingOnThrow ==
    /\ pc = "run" /\ rstate = "tools"
    /\ IF \E i \in 1..Len(calls) : calls[i].res.k = "threw"
         THEN /\ rstate' = "threw"
              /\ outcome' = [k |-> "error",
                             text |-> (CHOOSE r \in {calls[i].res : i \in 1..Len(calls)} :
                                          r.k = "threw").msg]
              /\ UNCHANGED <<calls, tail, turn>>
         ELSE /\ \A i \in 1..Len(calls) : calls[i].pc = "done"
              /\ tail' = [i \in 1..Len(calls) |-> calls[i].res]
              /\ calls' = <<>>
              /\ LET b == BeginTurn(turn)
                 IN /\ turn' = b.turn
                    /\ rstate' = b.rstate
                    /\ outcome' = b.outcome
    /\ UNCHANGED <<page, dispatched>>
    /\ UNCHANGED mainVars

(* every invocation of the response has settled: the results are appended
   to the transcript in the order of the invocations, and the next turn
   begins *)
Collect ==
    /\ pc = "run" /\ rstate = "tools"
    /\ \A i \in 1..Len(calls) : calls[i].pc = "done"
    /\ tail' = [i \in 1..Len(calls) |-> calls[i].res]
    /\ calls' = <<>>
    /\ LET b == BeginTurn(turn)
       IN /\ turn' = b.turn
          /\ rstate' = b.rstate
          /\ outcome' = b.outcome
    /\ UNCHANGED <<page, dispatched>>
    /\ UNCHANGED mainVars

----------------------------------------------------------------------------
(* main(), after runner.run settles *)

Box(kind, text) == [kind |-> kind, text |-> Str(text)]

(* RunResolved printing the success box only when there is a final text *)
RunResolvedBoxIfOutput ==
    /\ pc = "run" /\ rstate = "final"
    /\ console' = IF outcome.text = "" THEN console
                  ELSE Append(console, Box("result", outcome.text))
    /\ closeCalls' = closeCalls + 1
    /\ browser' = "closing"
    /\ pc' = "closing"
    /\ UNCHANGED <<env, query, page>>
    /\ UNCHANGED runnerVars

(* try: the success box; then browser.close() is called *)
RunResolved ==
    /\ pc = "run" /\ rstate = "final"
    /\ console' = Append(console,
           Box("result", IF outcome.text = ""
                           THEN "Task completed successfully!"
                           ELSE outcome.text))
    /\ closeCalls' = closeCalls + 1
    /\ browser' = "closing"
    /\ pc' = "closing"
    /\ UNCHANGED <<env, query, page>>
    /\ UNCHANGED runnerVars

(* RunRejected with browser.close() reached on the success path only *)
RunRejectedNoClose ==
    /\ pc = "run" /\ rstate = "threw"
    /\ console' = Append(console, Box("error", outcome.text))
    /\ pc' = "done"
    /\ UNCHANGED <<env, browser, closeCalls, query, page>>
    /\ UNCHANGED runnerVars

(* catch: the error box with error.message; then browser.close() is called *)
RunRejected ==
    /\ pc = "run" /\ rstate = "threw"
    /\ console' = Append(console, Box("error", outcome.text))
    /\ closeCalls' = closeCalls + 1
    /\ browser' = "closing"
    /\ pc' = "closing"
    /\ UNCHANGED <<env, query, page>>
    /\ UNCHANGED runnerVars

(* browser.close() resolves *)
Closed ==
    /\ pc = "closing"
    /\ browser' = "closed"
    /\ pc' = "done"
    /\ UNCHANGED <<env, closeCalls, query, console, page>>
    /\ UNCHANGED runnerVars

----------------------------------------------------------------------------

(* batches: the responses with tool invocations the planner draws from;
   counted: whether the history variable dispatched is kept *)
Next(batches, counted) ==
    \/ Launch
    \/ EnvCheck
    \/ IntakeAnswer
    \/ Intake
    \/ PlannerFinal
    \/ PlannerCalls(batches, counted)
    \/ PlannerFails
    \/ \E i \in 1..Len(calls) : ResumeTool(i)
    \/ Collect
    \/ RunResolved
    \/ RunRejected
    \/ Closed

(* the planning loop over the page tools *)
Spec == Init /\ [][Next(Batches(LoopCalls), FALSE)]_vars

(* the planning loop counting turns and dispatches *)
TurnSpec == Init /\ [][Next(Batches(TurnCalls), TRUE)]_vars

(* the planning loop over a tool that may throw and one that may not *)
TeardownSpec == Init /\ [][Next(Batches(TeardownCalls), FALSE)]_vars

(* main's scheduling: once runner.run has settled, the continuation of main
   runs, and browser.close() resolves *)
FairTurnSpec ==
    /\ TurnSpec
    /\ WF_vars(RunResolved)
    /\ WF_vars(RunRejected)
    /\ WF_vars(Closed)

----------------------------------------------------------------------------
(* One tool invocation at a time: from the third turn before the turn
   limit on, with the page in any state the tools can have left it in, every
   planner response carries one invocation, any of ToolCalls. *)

MidRunTurn == 28

ToolPages ==
    {p \in Pages :
        /\ p.url = "about:blank" => p.value \notin Prefills \ {""}
        /\ p.dom = IF p.url = "about:blank" THEN <<>> ELSE LoginDom}

Singles(menu) == {<<c>> : c \in menu}

ToolInit ==
    /\ pc = "run"
    /\ env = [n \in EnvNames |-> TRUE]
    /\ browser = "open"
    /\ closeCalls = 0
    /\ query = DefaultQuery
    /\ console = <<[kind |-> "default-task", text |-> DefaultQuery],
                   [kind |-> "task", text |-> DefaultQuery]>>
    /\ page \in ToolPages
    /\ turn = MidRunTurn
    /\ rstate = "model"
    /\ calls = <<>>
    /\ tail = <<Res("ok", "Waited for milliseconds.", <<Num(500)>>, "")>>
    /\ outcome = NoOutcome
    /\ dispatched = 0

ToolNext ==
    \/ PlannerCalls(Singles(ToolCalls), FALSE)
    \/ \E i \in 1..Len(calls) : ResumeTool(i)
    \/ Collect

ToolSpec == ToolInit /\ [][ToolNext]_vars

----------------------------------------------------------------------------
(* The extractor on any document: the page shows one of Docs, and every
   planner response carries one extract_page_elements invocation. *)

ExtractCalls ==
    {Call("extract_page_elements", v, Undef) :
        v \in {Undef, Null, Str("form"), Str("inputs"), Str("buttons")}}

ExtractInit ==
    /\ pc = "run"
    /\ env = [n \in EnvNames |-> TRUE]
    /\ browser = "open"
    /\ closeCalls = 0
    /\ query = DefaultQuery
    /\ console = <<[kind |-> "default-task", text |-> DefaultQuery],
                   [kind |-> "task", text |-> DefaultQuery]>>
    /\ \E u \in Urls, v \in Prefills, d \in Docs :
          page = [url |-> u, value |-> v, focus |-> "", scrollY |-> 0, dom |-> d]
    /\ turn = MaxTurns
    /\ rstate = "model"
    /\ calls = <<>>
    /\ tail = <<Res("ok", "Waited for milliseconds.", <<Num(500)>>, "")>>
    /\ outcome = NoOutcome
    /\ dispatched = 0

ExtractNext ==
    \/ PlannerCalls(Singles(ExtractCalls), FALSE)
    \/ \E i \in 1..Len(calls) : ResumeTool(i)
    \/ Collect

ExtractSpec == ExtractInit /\ [][ExtractNext]_vars

----------------------------------------------------------------------------
(* Claims *)

Terminal  == rstate \in {"final", "threw"}
Boxes     == SelectSeq(console, LAMBDA e : e.kind \in {"result", "error"})
BudgetHit == rstate = "threw" /\ outcome.text = ErrMaxTurns

(* C1: whichever terminal state a task execution reaches (a final answer,
   the turn limit, or any other exception out of runner.run),
   browser.close() is called exactly once, only after the outcome has been
   reported in a result box, and the browser is eventually closed. *)
C1_TeardownAfterReport ==
    /\ [](closeCalls <= 1)
    /\ [](closeCalls = 1 => Terminal /\ Len(Boxes) = 1)
    /\ [](browser \in {"closing", "closed"} <=> closeCalls = 1)
    /\ (Terminal ~> (browser = "closed" /\ closeCalls = 1))

C1_Witness ==
    /\ pc = "done" /\ browser = "closed" /\ closeCalls = 1
    /\ rstate = "threw" /\ outcome.text \in PlannerErrors

(* C2: the number of tool dispatches performed between the start of the
   task and its terminal state never exceeds the Turn Budget of 30, also
   when planner responses carry more than one tool invocation. *)
C2_DispatchesWithinBudget == dispatched <= MaxTurns

(* C3: when the planner issues tool calls until the 30 turns are used up,
   the run leaves the loop (no further planner call, no further tool),
   main shows exactly one box, the error box with the turn-limit message,
   and the browser is closed afterwards. *)
C3_BudgetAbort ==
    /\ [](turn > MaxTurns => BudgetHit /\ calls = <<>>)
    /\ [](BudgetHit /\ pc \in {"closing", "done"}
            => Boxes = <<Box("error", ErrMaxTurns)>>)
    /\ (turn > MaxTurns ~> (pc = "done" /\ browser = "closed"))

C3_Witness ==
    /\ BudgetHit /\ dispatched >= MaxTurns
    /\ pc = "done" /\ browser = "closed"
    /\ Boxes = <<Box("error", ErrMaxTurns)>>

InProgress == {i \in 1..Len(calls) : calls[i].pc # "done"}
Invocations == {calls[i] : i \in 1..Len(calls)}

(* C4: at every moment at most one tool's execute function is in progress
   on the shared page, for any planner output. *)
C4_OneToolAtATime == Cardinality(InProgress) <= 1

(* the wait for the target selector ended in its timeout *)
WaitTimedOut(c) ==
    /\ c.tool \in {"clickOnElement", "type"}
    /\ c.ops # <<>>
    /\ c.ops[1].op = "waitForSelector" /\ c.ops[1].st = "rejected"

Mutating == {"click", "fill"}

(* C5: a clickOnElement or type call whose selector does not become visible
   within the 10000 ms window returns a failure string naming the selector,
   has called neither page.click nor page.fill, and the step in which it
   fails leaves the page as it was. *)
C5_NoMutationOnTimeout ==
    /\ [](\A c \in Invocations :
            WaitTimedOut(c) =>
              /\ c.pc = "done" /\ c.res.k = "fail"
              /\ c.res.args = <<c.p1>> /\ c.p1.s \in Selectors
              /\ c.ops[1].n = SelectorTimeoutMs
              /\ \A j \in 1..Len(c.ops) : c.ops[j].op \notin Mutating)
    /\ [][\A i \in 1..Len(calls) :
            (i \in 1..Len(calls') /\ ~WaitTimedOut(calls[i])
               /\ WaitTimedOut(calls'[i])) => page' = page]_vars

C5_Witness ==
    \E c \in Invocations :
        /\ WaitTimedOut(c) /\ c.tool = "type"
        /\ c.p2.s = "test@example.com" /\ c.res.k = "fail"
        /\ page.value = "old@example.com"

(* the first awaited operation of a navigate, clickOnElement or type call
   (the page load, the wait for the selector) ended in its timeout *)
TransientFailure(c) ==
    /\ c.tool \in {"navigate", "clickOnElement", "type"}
    /\ c.ops # <<>>
    /\ c.ops[1].op \in {"goto", "waitForSelector"} /\ c.ops[1].st = "rejected"

(* C6: a load timeout in navigate or an element-wait timeout in
   clickOnElement or type ends the invocation with the failure string that
   execute itself returns (no exception leaves execute); that string is
   appended to the transcript as the invocation's result and the loop goes
   on to the next planner turn instead of aborting (after the 30th turn it
   is the turn limit, as after a success, that ends the run). *)
C6_TransientFailureIsResult ==
    /\ [](\A c \in Invocations :
            TransientFailure(c) =>
              /\ c.pc = "done" /\ c.res.k = "fail"
              /\ c.res.args = <<c.p1>>
              /\ c.res.msg \in {ErrGotoTimeout, ErrWaitTimeout}
              /\ rstate = "tools")
    /\ [][(\E c \in Invocations : TransientFailure(c)) /\ calls' # calls
            => /\ tail' = [i \in 1..Len(calls) |-> calls[i].res]
               /\ pc' = "run"
               /\ IF turn < MaxTurns
                    THEN rstate' = "model" /\ outcome' = NoOutcome
                    ELSE rstate' = "threw" /\ outcome'.text = ErrMaxTurns]_vars

C6_Witness ==
    /\ rstate = "model" /\ turn = MidRunTurn + 1 /\ Len(tail) = 1
    /\ tail[1].k = "fail" /\ tail[1].msg = ErrGotoTimeout
    /\ tail[1].fmt = "Failed to navigate to"

(* C7: when page.screenshot fails, take_screenshot's execute catches the
   failure and returns a failure result; no exception leaves execute. *)
C7_CaptureFailureCaught ==
    \A c \in Invocations :
        (c.tool = "take_screenshot" /\ c.ops # <<>> /\ c.ops[1].st = "rejected")
          => c.res.k = "fail"

(* C8: the arguments of every tool invocation are validated against the
   tool's declared parameter schema before execute runs: an invocation with
   invalid arguments never enters execute, calls no page operation and
   leaves the page as it was. *)
C8_ValidateBeforeExecute ==
    /\ [](\A c \in Invocations :
            ~ValidArgs(c) =>
              /\ c.pc = "done" /\ c.res.k = "invalid"
              /\ c.ops = <<>> /\ c.file = Undef)
    /\ [](\A c \in Invocations : c.ops # <<>> => ValidArgs(c))
    /\ [][(\E c \in Invocations : ~ValidArgs(c)) => page' = page]_vars

C8_Witness ==
    /\ rstate = "model" /\ Len(tail) = 1
    /\ tail[1].k = "invalid" /\ tail[1].msg = ErrInvalidJson
    /\ page.url # "about:blank"

(* C9: a wait invocation with a negative duration is rejected as a
   validation failure, and page.waitForTimeout is never called with a
   negative value. *)
C9_WaitNonNegative ==
    \A c \in Invocations :
        /\ (c.tool = "wait" /\ c.p1.k = "num" /\ c.p1.n < 0) => c.res.k = "invalid"
        /\ \A j \in 1..Len(c.ops) :
              c.ops[j].op = "waitForTimeout" => c.ops[j].n >= 0

(* C10: a take_screenshot invocation that omits the path passes validation;
   the screenshot is written to the time-stamped default path and returned
   as a base64-encoded image/png payload. *)
C10_ScreenshotPathOptional ==
    \A c \in Invocations :
        (c.tool = "take_screenshot" /\ c.p1 = Undef) =>
          /\ c.res.k # "invalid"
          /\ c.ops # <<>> /\ c.ops[1].op = "screenshot" /\ c.ops[1].s = DefaultShot.s
          /\ (c.pc = "done" /\ c.res.k = "ok") =>
                (c.file = DefaultShot /\ c.res = ImagePayload)


(* The descriptors an extract_page_elements invocation has returned *)
Extracted == {c \in Invocations : c.tool = "extract_page_elements" /\ c.res.k = "ok"}
Descriptors(c) == {c.res.args[i] : i \in DOMAIN c.res.args}
SelectorsOf(d) == IF "selectors" \in DOMAIN d THEN d.selectors ELSE <<>>

(* C11: every descriptor extract_page_elements returns for an element whose
   id is non-empty - a form, an input, textarea or select, or a clickable
   control alike - lists "#<id>" as its first selector candidate. *)
C11_IdSelectorFirst ==
    \A c \in Extracted : \A d \in Descriptors(c) :
        d.id # "" => /\ SelectorsOf(d) # <<>>
                     /\ SelectorsOf(d)[1] = "#" \o d.id

(* C12: every descriptor extract_page_elements returns - for a form, an
   input, textarea or select, or a clickable control, whatever attributes the
   element has or lacks - carries a non-empty list of selector candidates. *)
C12_SelectorsNonEmpty ==
    \A c \in Extracted : \A d \in Descriptors(c) :
        "selectors" \in DOMAIN d /\ d.selectors # <<>>

(* which enumeration a descriptor comes from, by the fields it has *)
Category(d) ==
    CASE "action" \in DOMAIN d      -> 1
      [] "placeholder" \in DOMAIN d -> 2
      [] "textContent" \in DOMAIN d -> 3
IsForm(el)      == el.tag = "form"
IsField(el)     == el.tag \in {"input", "textarea", "select"}
IsClickable(el) ==
    el.tag = "button" \/ (el.tag = "input" /\ el.type \in {"submit", "button"})
(* descriptors ds report, one for one and in order, the elements els *)
InDocumentOrder(ds, els) ==
    /\ Len(ds) = Len(els)
    /\ \A i \in DOMAIN ds : ds[i].tag = els[i].tag /\ ds[i].id = els[i].id

(* C18: the result of extract_page_elements is the forms, then the
   input/textarea/select elements, then the clickable controls, each in
   document order and nothing dropped as a duplicate: an input of type submit
   or button is reported once among the inputs and once more among the
   clickable controls. *)
C18_ConcatenationNoDedup ==
    \A c \in Extracted :
        LET ds == c.res.args
            Of(k) == SelectSeq(ds, LAMBDA d : Category(d) = k)
        IN  /\ \A i, j \in DOMAIN ds : i < j => Category(ds[i]) <= Category(ds[j])
            /\ InDocumentOrder(Of(1), SelectSeq(page.dom, IsForm))
            /\ InDocumentOrder(Of(2), SelectSeq(page.dom, IsField))
            /\ InDocumentOrder(Of(3), SelectSeq(page.dom, IsClickable))
            /\ \A el \in {page.dom[i] : i \in DOMAIN page.dom} :
                  IsField(el) /\ IsClickable(el) =>
                    /\ \E i \in DOMAIN ds : Category(ds[i]) = 2 /\ ds[i].id = el.id
                    /\ \E i \in DOMAIN ds : Category(ds[i]) = 3 /\ ds[i].id = el.id

C18_Witness ==
    \E c \in Extracted :
        /\ Len(page.dom) = 2
        /\ page.dom[1].tag = "input" /\ page.dom[1].type = "submit"
        /\ page.dom[2].tag = "form"
        /\ Len(c.res.args) = 3
        /\ c.res.args[1].tag = "form"
        /\ c.res.args[2].tag = "input" /\ c.res.args[3].tag = "input"

(* C13: when a GEMINI_* setting is missing, no browser session is started
   before the failure is reported, the process never reaches the intake
   prompt or runner.run, and no browser session is left open. *)
C13_ConfigCheckedBeforeSession ==
    (\E n \in EnvNames : ~env[n]) =>
        /\ browser = "none"
        /\ pc \in {"launch", "envcheck", "exited"}

Spaces(n) == [i \in 1..n |-> " "]
(* t is line without the blanks around it *)
IsTrimOf(t, line) ==
    /\ t # <<>> => t[1] # " " /\ t[Len(t)] # " "
    /\ \E i, j \in 0..Len(line) : line = Spaces(i) \o t \o Spaces(j)
Printed == SubSeq(console', Len(console) + 1, Len(console'))

(* C14: when the line entered at the intake prompt is empty or blank, the
   default instruction becomes the task, the substitution is printed before
   the task starts and the task line shows the default; otherwise the task is
   the entered line without the blanks around it, and no substitution notice
   is printed. *)
C14_DefaultTaskOnBlankAnswer ==
    [][pc = "answered" /\ pc' = "run" =>
         /\ tail' = <<Res("task", "", <<query'>>, "")>>
         /\ IF \A i \in DOMAIN query.l : query.l[i] = " "
              THEN /\ query' = DefaultQuery
                   /\ Printed = <<[kind |-> "default-task", text |-> DefaultQuery],
                                  [kind |-> "task", text |-> DefaultQuery]>>
              ELSE /\ query'.k = "line"
                   /\ IsTrimOf(query'.l, query.l)
                   /\ Printed = <<[kind |-> "task", text |-> query']>>]_vars

C14_Witness ==
    /\ pc = "run" /\ turn = 1 /\ rstate = "model"
    /\ query = Line(<<"y">>)
    /\ console = <<[kind |-> "task", text |-> Line(<<"y">>)]>>

(* C15: every task ends with exactly one result box: the success box with
   the planner's final answer (the stock text when that answer is empty)
   when the run resolved, the error box with the exception's message when it
   rejected; no box is printed before the run has ended, never two, and
   once the run has ended the box does get printed. *)
C15_ExactlyOneBox ==
    /\ [](~Terminal => Boxes = <<>>)
    /\ [](pc = "run" => Boxes = <<>>)
    /\ [](pc \in {"closing", "done"} /\ rstate = "final" =>
            Boxes = <<Box("result", IF outcome.text = ""
                                      THEN "Task completed successfully!"
                                      ELSE outcome.text)>>)
    /\ [](pc \in {"closing", "done"} /\ rstate = "threw" =>
            Boxes = <<Box("error", outcome.text)>>)
    /\ (Terminal ~> Len(Boxes) = 1)

C15_Witness ==
    /\ pc = "done" /\ rstate = "final" /\ outcome.text = "Logged in."
    /\ Boxes = <<Box("result", "Logged in.")>>

(* ask_user invocation i is waiting for the operator's line *)
Asking(cs, i) ==
    i \in DOMAIN cs /\ cs[i].tool = "ask_user" /\ cs[i].pc = "question"

(* C16: while an ask_user invocation waits for the operator, the whole loop
   is suspended - no other tool executes a step, the planner is not called,
   the transcript does not grow, the page stays as it is - until the
   operator answers, however long that takes; the answer it then returns is
   the operator's line without the blanks around it. *)
C16_ClarificationSuspendsLoop ==
    /\ [][(\E i \in DOMAIN calls : Asking(calls, i) /\ Asking(calls', i))
            => UNCHANGED <<calls, page, tail, turn, rstate>>]_vars
    /\ [](\A c \in Invocations :
             c.tool = "ask_user" /\ c.res.k = "ok" =>
                 \E a \in OperatorLines : IsTrimOf(c.res.args[1].l, a))

TypeCalls(cs) == {i \in DOMAIN cs : cs[i].tool = "type"}
OpNames(c)    == [i \in DOMAIN c.ops |-> c.ops[i].op]

(* C17: a type invocation that returns success has waited for the field to
   be visible, cleared it, written the text and let the page settle, in this
   order, and at the moment it returns the field holds exactly the given
   text, whatever it held before. *)
C17_TypeAtomicReplace ==
    [][\A i \in TypeCalls(calls) :
          /\ i \in DOMAIN calls'
          /\ calls[i].pc # "done"
          /\ calls'[i].pc = "done" /\ calls'[i].res.k = "ok"
          => /\ OpNames(calls'[i]) =
                   <<"waitForSelector", "fill", "fill", "waitForTimeout">>
             /\ calls'[i].ops[2].s = ""
             /\ calls'[i].ops[3].s = calls'[i].p2.s
             /\ \A k \in 1..4 : calls'[i].ops[k].st = "ok"
             /\ page'.value = calls'[i].p2.s]_vars

(* C19: whenever a type invocation returns a failure string, whatever the
   operation that failed, the field holds what it held before the
   invocation touched it: a failed type never leaves the field cleared. *)
C19_FailedTypeLeavesField ==
    \A c \in Invocations :
        c.tool = "type" /\ c.res.k = "fail" /\ c.before.k = "str"
            => page.value = c.before.s

(* C20: from the call of browser.close() on, no tool invocation is in
   progress and none starts: when main tears the browser down, on the
   success path and on the error path alike, every invocation the run
   dispatched has returned. *)
C20_NoToolAtTeardown ==
    /\ [](closeCalls > 0 \/ browser \in {"closing", "closed"}
            => InProgress = {} /\ Terminal)
    /\ [][(browser \in {"closing", "closed"}) => UNCHANGED <<calls, page>>]_vars

C20_Witness ==
    /\ pc = "done" /\ browser = "closed"
    /\ rstate = "threw" /\ outcome.text \in PlannerErrors
    /\ turn = 3

(* the focus execute passes to the callback for each invocation the planner
   may send *)
Focuses == {Invoke(c).ops[1].s : c \in ExtractCalls}

(* C21: the descriptors extract_page_elements returns do not depend on the
   selection-area hint: on a given page, what an invocation returns is what
   the extraction returns for every other hint - null, omitted, "form",
   "inputs" or "buttons". *)
C21_HintIndependent ==
    \A c \in Extracted : \A focus \in Focuses :
        c.res.args = collectedElements(page, focus)

C21_Witness ==
    \E c \in Extracted :
        /\ c.p1 = Str("buttons")
        /\ c.ops[1].s = "buttons"
        /\ Len(page.dom) = 2
        /\ page.dom[1].tag = "form" /\ page.dom[2].tag = "textarea"
        /\ Len(c.res.args) = 2
        /\ c.res.args[1].tag = "form" /\ c.res.args[2].tag = "textarea"

====
